---- MODULE Spec2Model ----
(***************************************************************************)
(* Model of internal/cloud/s3.go: the AWSSession transfer pipeline         *)
(* (UploadCompressedDirectory, DownloadCompressedDirectory, Cancel,        *)
(* uncompressFile) and the path arithmetic of the upload walk and the      *)
(* extractor.                                                              *)
(*                                                                         *)
(* Strings are sequences of one-character strings.  The archive and codec  *)
(* libraries, the remote endpoint and io.Pipe are modelled at their        *)
(* interface: io.Pipe is a synchronous rendezvous pipe, a constructor      *)
(* returns nil or an error without touching the pipe, put reads its body   *)
(* until end-of-stream, get writes the object in order, and both give up   *)
(* as soon as their context is cancelled.                                  *)
(***************************************************************************)
EXTENDS Integers, Sequences, FiniteSets, TLC

VARIABLES
    rt,         \* the sequential walk -> extract run (path arithmetic)
    cancel,     \* AWSSession.cancel: the function in the cancellation slot
    m,          \* AWSSession.m: the thread holding the lock, or "free"
    ctx,        \* per transfer: the state of its context
    pc,         \* per thread: where it stands
    pipe,       \* the io.Pipe pairs
    key,        \* per transfer: the s3FilePath it was called with
    ret,        \* per transfer: the error the call returned
    opRes,      \* per transfer: the error the remote put/get returned
    wq,         \* walker: the nodes filepath.Walk has still to visit
    werr,       \* walker: the error filepath.Walk returned
    enc,        \* the zstd encoder of the upload: in use, buffered data, frame begun
    putGot,     \* the tokens the remote put has read from its body
    objPos,     \* the number of the part of the remote object the get writes next
    localFs,    \* the local filesystem under the download's target root
    curFile,    \* extractor: the entry compression.Read returned
    eErrLoop,   \* extractor: the err declared inside the loop (line 259)
    eErr,       \* extractor: the err declared before the loop (line 257)
    hit         \* history: transfers whose context an outside Cancel cancelled

----------------------------------------------------------------------------
(* Strings                                                                 *)

\* the OS path separator (filepath.Separator) on the build's platform
Separator == "/"

HasPrefix(s, p) ==
    /\ Len(p) <= Len(s)
    /\ SubSeq(s, 1, Len(p)) = p

\* strings.TrimPrefix
TrimPrefix(s, p) ==
    IF HasPrefix(s, p) THEN SubSeq(s, Len(p) + 1, Len(s)) ELSE s

\* filepath.ToSlash: every Separator becomes '/'
ToSlash(s) ==
    [i \in 1..Len(s) |-> IF s[i] = Separator THEN "/" ELSE s[i]]

\* strings.FieldsFunc(s, c == '/'): the maximal runs of non-'/' characters
RECURSIVE FieldsFrom(_, _, _)
FieldsFrom(s, i, cur) ==
    IF i > Len(s)
    THEN IF cur = <<>> THEN <<>> ELSE <<cur>>
    ELSE IF s[i] = "/"
         THEN IF cur = <<>> THEN FieldsFrom(s, i + 1, <<>>)
              ELSE <<cur>> \o FieldsFrom(s, i + 1, <<>>)
         ELSE FieldsFrom(s, i + 1, Append(cur, s[i]))

FieldsFunc(s) == FieldsFrom(s, 1, <<>>)

\* filepath.Clean for paths without '.' elements: runs of separators
\* collapse, a trailing separator is dropped (the root "/" stays), and the
\* empty path is "."
RECURSIVE JoinSegs(_)
JoinSegs(segs) ==
    IF segs = <<>> THEN <<>>
    ELSE IF Len(segs) = 1 THEN segs[1]
    ELSE segs[1] \o <<"/">> \o JoinSegs(Tail(segs))

Clean(p) ==
    IF p = <<>> THEN <<".">>
    ELSE IF p[1] = "/" THEN <<"/">> \o JoinSegs(FieldsFunc(p))
    ELSE IF FieldsFunc(p) = <<>> THEN <<".">>
    ELSE JoinSegs(FieldsFunc(p))

\* filepath.Join: empty elements are ignored, the rest are joined with the
\* separator and cleaned; no non-empty element gives ""
RECURSIVE DropEmpty(_)
DropEmpty(elems) ==
    IF elems = <<>> THEN <<>>
    ELSE IF elems[1] = <<>> THEN DropEmpty(Tail(elems))
    ELSE <<elems[1]>> \o DropEmpty(Tail(elems))

RECURSIVE Glue(_)
Glue(elems) ==
    IF Len(elems) = 1 THEN elems[1]
    ELSE elems[1] \o <<"/">> \o Glue(Tail(elems))

Join(elems) ==
    IF DropEmpty(elems) = <<>> THEN <<>> ELSE Clean(Glue(DropEmpty(elems)))

\* filepath.Dir of a cleaned path
Dir(p) ==
    LET segs == FieldsFunc(p) IN
    IF Len(segs) <= 1
    THEN IF p # <<>> /\ p[1] = "/" THEN <<"/">> ELSE <<".">>
    ELSE IF p[1] = "/" THEN <<"/">> \o JoinSegs(SubSeq(segs, 1, Len(segs) - 1))
         ELSE JoinSegs(SubSeq(segs, 1, Len(segs) - 1))

----------------------------------------------------------------------------
(* The local filesystem: a function from cleaned paths to nodes            *)

PermBits == {"ur", "uw", "ux", "gr", "gw", "gx", "or", "ow", "ox"}
Perm755 == {"ur", "uw", "ux", "gr", "gx", "or", "ox"}
Perm700 == {"ur", "uw", "ux"}
Perm644 == {"ur", "uw", "gr", "or"}
Perm600 == {"ur", "uw"}
Perm666 == {"ur", "uw", "gr", "gw", "or", "ow"}
\* the process umask (022)
Umask == {"gw", "ow"}

FsNode(isDir, perm) == [dir |-> isDir, perm |-> perm]

\* the strict ancestors of a cleaned path, nearest last
RECURSIVE Ancestors(_)
Ancestors(p) ==
    IF Dir(p) = p THEN {} ELSE {Dir(p)} \cup Ancestors(Dir(p))

\* os.Stat fails with ENOTDIR when a component of the path is a file
NotDirOnPath(fs, p) ==
    \E a \in Ancestors(p) : a \in DOMAIN fs /\ ~fs[a].dir

\* Exists: os.Stat succeeds, or fails with anything but "not exist"
Exists(fs, p) == p \in DOMAIN fs \/ NotDirOnPath(fs, p)

ParentIsDir(fs, p) ==
    Dir(p) \in {<<".">>, <<"/">>} \/ (Dir(p) \in DOMAIN fs /\ fs[Dir(p)].dir)

FsPut(fs, p, node) ==
    [q \in DOMAIN fs \cup {p} |-> IF q = p THEN node ELSE fs[q]]

\* os.Mkdir(p, perm): one level, the parent must be a directory
Mkdir(fs, p, perm) ==
    IF p \in DOMAIN fs \/ ~ParentIsDir(fs, p)
    THEN [fs |-> fs, err |-> "mkdir"]
    ELSE [fs |-> FsPut(fs, p, FsNode(TRUE, perm \ Umask)), err |-> "nil"]

\* os.Create(p): create with 0666 before umask, or truncate an existing
\* file (its mode is kept); fails on a directory or a missing parent
Create(fs, p) ==
    IF ~ParentIsDir(fs, p) \/ (p \in DOMAIN fs /\ fs[p].dir)
    THEN [fs |-> fs, err |-> "create"]
    ELSE IF p \in DOMAIN fs THEN [fs |-> fs, err |-> "nil"]
    ELSE [fs |-> FsPut(fs, p, FsNode(FALSE, Perm666 \ Umask)), err |-> "nil"]

----------------------------------------------------------------------------
(* Archive entries and the extractor                                       *)

Entry(name, isDir, perm) == [name |-> name, dir |-> isDir, perm |-> perm]

\* a destination that would keep the archive's top directory below the root
LocalFileKeepTop(localRootDirectory, name) ==
    Join(<<localRootDirectory>> \o FieldsFunc(name))

\* the destination of an entry: the first segment is replaced by the target
\* root and the rest joined beneath it
LocalFile(localRootDirectory, name) ==
    Join(<<localRootDirectory>> \o Tail(FieldsFunc(name)))

\* uncompressFile(localRootDirectory, f) on filesystem fs
uncompressFile(fs, localRootDirectory, f) ==
    IF Len(FieldsFunc(f.name)) = 0
    THEN [fs |-> fs, err |-> "incorrect_path"]
    ELSE LET localFile == LocalFile(localRootDirectory, f.name) IN
         IF f.dir
         THEN IF ~Exists(fs, localFile) THEN Mkdir(fs, localFile, f.perm)
              ELSE [fs |-> fs, err |-> "nil"]
         ELSE Create(fs, localFile)

----------------------------------------------------------------------------
(* The upload walk                                                         *)

\* the names a directory can hold, in the order filepath.Walk visits them
NameOrder == <<"a", "b">>
MaxDepth == 2
MaxNodes == 3

Front(n) == SubSeq(n, 1, Len(n) - 1)

RECURSIVE NodesOfDepth(_)
NodesOfDepth(d) ==
    IF d = 0 THEN {<<>>}
    ELSE {Append(n, NameOrder[i]) : n \in NodesOfDepth(d - 1), i \in 1..Len(NameOrder)}

NodeUniverse == UNION {NodesOfDepth(d) : d \in 1..MaxDepth}

DirKinds == {FsNode(TRUE, Perm755), FsNode(TRUE, Perm700)}
FileKinds == {FsNode(FALSE, Perm644), FsNode(FALSE, Perm600)}

Shapes ==
    {S \in SUBSET NodeUniverse :
        /\ Cardinality(S) <= MaxNodes
        /\ \A n \in S : Len(n) > 1 => Front(n) \in S}

\* a directory tree: node (its names below the root) -> kind; <<>> is the
\* walked root, a directory
Trees ==
    UNION {{t \in [S \cup {<<>>} -> DirKinds \cup FileKinds] :
              /\ t[<<>>] = FsNode(TRUE, Perm755)
              /\ \A n \in S : t[Front(n)].dir} : S \in Shapes}

\* filepath.Walk's visiting order below node n: the node, then each child
\* in lexical order with its subtree (pre-order)
RECURSIVE PreOrder(_, _)
RECURSIVE PreOrderKids(_, _, _)
PreOrder(tree, n) ==
    <<n>> \o (IF tree[n].dir THEN PreOrderKids(tree, n, 1) ELSE <<>>)
PreOrderKids(tree, n, i) ==
    IF i > Len(NameOrder) THEN <<>>
    ELSE (IF Append(n, NameOrder[i]) \in DOMAIN tree
          THEN PreOrder(tree, Append(n, NameOrder[i])) ELSE <<>>)
         \o PreOrderKids(tree, n, i + 1)

\* the path filepath.Walk hands to the callback: the root as given, and
\* below it filepath.Join(parent path, name)
RECURSIVE WalkPath(_, _)
WalkPath(root, n) ==
    IF n = <<>> THEN root
    ELSE Join(<<WalkPath(root, Front(n)), <<n[Len(n)]>>>>)

\* a callback that would not add the leading '/'
CustomNameBare(path, localDirectoy) ==
    LET trimmed == TrimPrefix(path, localDirectoy) IN
    IF Len(trimmed) = 0 THEN <<>> ELSE ToSlash(trimmed)

\* a callback that would name the root "/" instead of failing on it
CustomNameRooted(path, localDirectoy) ==
    LET trimmed == TrimPrefix(path, localDirectoy) IN
    IF Len(trimmed) = 0 THEN <<"/">>
    ELSE IF ToSlash(trimmed)[1] # "/" THEN <<"/">> \o ToSlash(trimmed)
    ELSE ToSlash(trimmed)

\* the entry name the callback derives from a visited path; "" is the
\* "unexpected path" failure
CustomName(path, localDirectoy) ==
    LET trimmed == TrimPrefix(path, localDirectoy) IN
    IF Len(trimmed) = 0 THEN <<>>
    ELSE IF ToSlash(trimmed)[1] # "/" THEN <<"/">> \o ToSlash(trimmed)
    ELSE ToSlash(trimmed)

\* the walk callback on one visited node: walkErr is the error Walk
\* passes in, openErr the outcome of os.Open
walkFn(path, info, walkErr, openErr, localDirectoy) ==
    IF walkErr # "nil" THEN [err |-> walkErr, write |-> FALSE, entry |-> <<>>]
    ELSE IF openErr # "nil" THEN [err |-> openErr, write |-> FALSE, entry |-> <<>>]
    ELSE IF Len(CustomName(path, localDirectoy)) = 0
         THEN [err |-> "unexpected_path", write |-> FALSE, entry |-> <<>>]
    ELSE [err |-> "nil", write |-> TRUE,
          entry |-> Entry(CustomName(path, localDirectoy), info.dir, info.perm)]

----------------------------------------------------------------------------
(* The sequential run: walk a tree into an archive, extract an archive     *)

MaxArchiveLen == 2

\* the root directory strings handed to the upload
RootStrings == {<<"/", "r">>, <<"/", "r", "/">>, <<"r">>}
\* the target root handed to the extractor, an existing empty directory
TargetRoot == <<"/", "t">>
EmptyTarget == [p \in {TargetRoot} |-> FsNode(TRUE, Perm755)]

\* entry names an archive read from the remote store can carry
EntryNames ==
    {<<"/", "a">>, <<"/", "a", "/", "b">>, <<"a", "/", "b">>,
     <<"/", "/", "a", "/", "/", "b", "/">>, <<"r", "/", "a", "/", "b">>,
     <<"/">>, <<>>}
ArchiveEntries ==
    {Entry(n, d, IF d THEN Perm755 ELSE Perm644) : n \in EntryNames, d \in BOOLEAN}
Archives ==
    UNION {[1..k -> ArchiveEntries] : k \in 0..MaxArchiveLen}

----------------------------------------------------------------------------
(* Codec selection                                                         *)

\* strings.ToLower on the letters that occur in keys
LowerChar(c) ==
    CASE c = "X" -> "x" [] c = "Z" -> "z" [] c = "S" -> "s"
      [] c = "T" -> "t" [] c = "D" -> "d" [] c = "G" -> "g"
      [] OTHER -> c

ToLower(s) == [i \in 1..Len(s) |-> LowerChar(s[i])]

\* filepath.Ext: the suffix from the last '.' of the last path element
RECURSIVE ExtFrom(_, _)
ExtFrom(path, i) ==
    IF i < 1 \/ path[i] = Separator THEN <<>>
    ELSE IF path[i] = "." THEN SubSeq(path, i, Len(path))
    ELSE ExtFrom(path, i - 1)

Ext(path) == ExtFrom(path, Len(path))

\* the extension the switch looks at, without lower-casing
CodecOfRaw(s3FilePath) ==
    CASE Ext(s3FilePath) = <<".", "x", "z">> -> "xz"
      [] Ext(s3FilePath) = <<".", "z", "s", "t", "d">> -> "zstd"
      [] OTHER -> "unknown"

\* the switch on strings.ToLower(filepath.Ext(s3FilePath))
CodecOf(s3FilePath) ==
    CASE ToLower(Ext(s3FilePath)) = <<".", "x", "z">> -> "xz"
      [] ToLower(Ext(s3FilePath)) = <<".", "z", "s", "t", "d">> -> "zstd"
      [] OTHER -> "unknown"

----------------------------------------------------------------------------
(* io.Pipe                                                                 *)

\* a pipe: the data of the write in progress, the thread blocked in that
\* write, and the two closed flags
NewPipe == [buf |-> <<>>, writer |-> "none", wclosed |-> FALSE, rclosed |-> FALSE]

PipeClosed(p) == p.wclosed \/ p.rclosed

\* PipeWriter.Write can hand its data over: no end closed, no other write
\* in progress
CanOffer(p) == ~PipeClosed(p) /\ p.writer = "none"
Offer(p, th, data) == [p EXCEPT !.buf = data, !.writer = th]

\* the write of thread th has ended: all data read, or an end closed
WriteEnded(p, th) == p.writer = th /\ (p.buf = <<>> \/ PipeClosed(p))
WriteErr(p) == IF p.buf = <<>> THEN "nil" ELSE "closed_pipe"
AfterWrite(p) == [p EXCEPT !.buf = <<>>, !.writer = "none"]

\* PipeReader.Read returns: data of a write in progress, else EOF once the
\* write end is closed
CanRead(p) == p.buf # <<>> \/ p.wclosed
ReadData(p) == p.buf
AfterRead(p) == [p EXCEPT !.buf = <<>>]

CloseWrite(p) == [p EXCEPT !.wclosed = TRUE]
CloseRead(p) == [p EXCEPT !.rclosed = TRUE]

Tok(kind, e) == [kind |-> kind, f |-> e]
NoEntry == Entry(<<>>, FALSE, {})

----------------------------------------------------------------------------
(* The session and its threads                                             *)

Transfers == {"up", "down"}
Threads == {"up", "down", "walker", "copier", "extractor", "canceller"}
PipeNames == {"up", "upTar", "dn", "dnTar"}

\* the directory the upload walks
UploadRoot == <<"/", "r">>
UploadTree ==
    (<<>> :> FsNode(TRUE, Perm755)) @@ (<<"a">> :> FsNode(FALSE, Perm644))

\* keys by the codec a reader of the code expects for them
KeysZstd == {<<"b", ".", "z", "s", "t", "d">>, <<"b", ".", "Z", "s", "t", "D">>}
KeysUnknown ==
    {<<"b", ".", "t", "a", "r", ".", "g", "z">>, <<"b">>,
     <<"b", ".", "x", "z", "/", "c">>, <<"b", ".", "z", "s", "t">>}
\* the keys uploads and downloads are called with: both codecs in both
\* directions, in lower, upper and mixed case
UpKeys == {<<"b", ".", "x", "z">>, <<"b", ".", "Z", "s", "t", "D">>} \cup KeysUnknown
DownKeys == KeysZstd \cup {<<"b", ".", "X", "Z">>} \cup KeysUnknown

\* NewAWSSession: the slot holds the no-op function
SessionInit ==
    /\ cancel = "noop"
    /\ m = "free"
    /\ ctx = [t \in Transfers |-> "none"]
    /\ pc = [th \in Threads |->
               IF th \in Transfers \cup {"canceller"} THEN "idle" ELSE "none"]
    /\ pipe = [p \in PipeNames |-> NewPipe]
    /\ key = [t \in Transfers |-> <<>>]
    /\ ret = [t \in Transfers |-> "nil"]
    /\ opRes = [t \in Transfers |-> "nil"]
    /\ wq = <<>>
    /\ werr = "nil"
    /\ enc = [on |-> FALSE, buf |-> <<>>, open |-> FALSE]
    /\ putGot = <<>>
    /\ objPos = 1
    /\ localFs = EmptyTarget
    /\ curFile = NoEntry
    /\ eErrLoop = "nil"
    /\ eErr = "nil"
    /\ hit = {}

sessionVars ==
    <<cancel, m, ctx, pc, pipe, key, ret, opRes, wq, werr, enc, putGot,
      objPos, localFs, curFile, eErrLoop, eErr, hit>>

vars == <<rt, sessionVars>>

----------------------------------------------------------------------------
(* Cancel and the cancellation slot                                        *)

upV == <<wq, werr, enc, putGot>>
dnV == <<objPos, localFs, curFile, eErrLoop, eErr>>
lockV == <<cancel, m, ctx, hit>>

\* the pcs at which a transfer's remote put/get is running
InRemoteOp(t) == pc[t] \in {"put", "get", "get_wait"}

\* a Cancel that would leave the slot as it found it
SlotKept(slot) == slot

\* what Cancel leaves in the slot (line 306)
SlotAfterCancel(slot) == "noop"

\* calling the function in the slot (line 305): the no-op changes nothing,
\* a context's cancel function cancels that context
CallSlot(slot, c) ==
    IF slot = "noop" THEN c ELSE [c EXCEPT ![slot] = "cancelled"]

\* a.m.Lock() of Cancel (line 302): by a transfer's deferred a.Cancel() or
\* by an outside caller
CancelLock(th) ==
    /\ m = "free"
    /\ \/ th \in Transfers /\ pc[th] = "dcancel"
       \/ th = "canceller" /\ pc[th] = "idle"
    /\ m' = th
    /\ pc' = [pc EXCEPT ![th] = "cancel_locked"]
    /\ UNCHANGED <<rt, cancel, ctx, hit, pipe, key, ret, opRes, upV, dnV>>

\* the body of Cancel under the lock (lines 305-306) and the deferred
\* Unlock; a transfer then runs its remaining defers and returns
CancelBody(th) ==
    /\ m = th
    /\ pc[th] = "cancel_locked"
    /\ ctx' = CallSlot(cancel, ctx)
    /\ cancel' = SlotAfterCancel(cancel)
    /\ m' = "free"
    /\ hit' = IF th = "canceller" /\ cancel # "noop" /\ ctx[cancel] = "live"
                 /\ InRemoteOp(cancel)
              THEN hit \cup {cancel} ELSE hit
    /\ pc' = [pc EXCEPT ![th] =
                CASE th = "canceller" -> "idle"
                  [] th = "up" /\ enc.on -> "encclose"
                  [] OTHER -> "done"]
    /\ UNCHANGED <<rt, pipe, key, ret, opRes, upV, dnV>>

\* a.m.Lock() before the context is made (lines 176, 281)
StartLock(t) ==
    /\ pc[t] = "lock"
    /\ m = "free"
    /\ m' = t
    /\ pc' = [pc EXCEPT ![t] = "set"]
    /\ UNCHANGED <<rt, cancel, ctx, hit, pipe, key, ret, opRes, upV, dnV>>

\* a transfer that would store its cancel function without taking the lock
SetCancelUnlocked(t) ==
    /\ pc[t] = "lock"
    /\ ctx' = [ctx EXCEPT ![t] = "live"]
    /\ cancel' = t
    /\ pc' = [pc EXCEPT ![t] = IF t = "up" THEN "put" ELSE "get"]
    /\ UNCHANGED <<rt, m, hit, pipe, key, ret, opRes, upV, dnV>>

\* context.WithCancel, a.cancel = cancel, a.m.Unlock(), defer a.Cancel()
\* (lines 177-180, 282-285); the remote operation starts
SetCancel(t) ==
    /\ pc[t] = "set"
    /\ m = t
    /\ ctx' = [ctx EXCEPT ![t] = "live"]
    /\ cancel' = t
    /\ m' = "free"
    /\ pc' = [pc EXCEPT ![t] = IF t = "up" THEN "put" ELSE "get"]
    /\ UNCHANGED <<rt, hit, pipe, key, ret, opRes, upV, dnV>>

----------------------------------------------------------------------------
(* UploadCompressedDirectory                                               *)

\* the pipe the archive writer writes into
WalkerPipe == IF CodecOf(key["up"]) = "xz" THEN "up" ELSE "upTar"

\* lines 102-174: the pipes, the codec switch, the copy stage and the
\* walker stage are set up; a constructor may fail
U_Start(k) ==
    /\ pc["up"] = "idle"
    /\ key' = [key EXCEPT !["up"] = k]
    /\ \E ctorErr \in {"nil", "create_err", "encoder_err"} :
         IF CodecOf(k) = "unknown"
         THEN /\ ret' = [ret EXCEPT !["up"] = "unknown_ext"]
              /\ pc' = [pc EXCEPT !["up"] = "done"]
              /\ UNCHANGED <<pipe, wq, enc>>
         ELSE IF ctorErr # "nil"
         THEN /\ ctorErr = "encoder_err" => CodecOf(k) = "zstd"
              /\ ret' = [ret EXCEPT !["up"] = ctorErr]
              /\ pc' = [pc EXCEPT !["up"] = "done"]
              /\ UNCHANGED <<pipe, wq, enc>>
         ELSE /\ pipe' = [pipe EXCEPT !["up"] = NewPipe, !["upTar"] = NewPipe]
              /\ enc' = [on |-> CodecOf(k) = "zstd", buf |-> <<>>, open |-> FALSE]
              /\ wq' = PreOrder(UploadTree, <<>>)
              /\ pc' = [pc EXCEPT !["up"] = "lock", !["walker"] = "walk",
                                  !["copier"] = IF CodecOf(k) = "zstd"
                                                THEN "read" ELSE "none"]
              /\ UNCHANGED ret
    /\ UNCHANGED <<rt, lockV, opRes, werr, putGot, dnV>>

\* filepath.Walk visits the next node and runs the callback (lines
\* 140-167); an entry goes to compression.Write, which writes into the
\* pipe; the first error ends the walk
W_Visit ==
    /\ pc["walker"] = "walk"
    /\ IF wq = <<>>
       THEN /\ werr' = "nil"
            /\ pc' = [pc EXCEPT !["walker"] = "close"]
            /\ UNCHANGED <<pipe, wq>>
       ELSE \E walkErr \in {"nil", "lstat_err"}, openErr \in {"nil", "open_err"} :
            LET n == Head(wq)
                r == walkFn(WalkPath(UploadRoot, n), UploadTree[n],
                            walkErr, openErr, UploadRoot)
            IN IF ~r.write
               THEN /\ werr' = r.err
                    /\ pc' = [pc EXCEPT !["walker"] = "close"]
                    /\ UNCHANGED <<pipe, wq>>
               ELSE IF PipeClosed(pipe[WalkerPipe])
               THEN /\ werr' = "closed_pipe"
                    /\ pc' = [pc EXCEPT !["walker"] = "close"]
                    /\ UNCHANGED <<pipe, wq>>
               ELSE /\ CanOffer(pipe[WalkerPipe])
                    /\ pipe' = [pipe EXCEPT ![WalkerPipe] =
                                  Offer(@, "walker", <<Tok("entry", r.entry)>>)]
                    /\ wq' = Tail(wq)
                    /\ pc' = [pc EXCEPT !["walker"] = "write_wait"]
                    /\ UNCHANGED werr
    /\ UNCHANGED <<rt, lockV, key, ret, opRes, enc, putGot, dnV>>

\* what compression.Close() writes: the tar trailer, and for tar.xz the
\* end of the xz stream
ArchiveEnd ==
    IF CodecOf(key["up"]) = "xz"
    THEN <<Tok("trailer", NoEntry), Tok("xzfoot", NoEntry)>>
    ELSE <<Tok("trailer", NoEntry)>>

\* compression.Close() (line 169): the archive's end is written into the
\* pipe; the pipe itself is not closed, and a write error is dropped
W_Close ==
    /\ pc["walker"] = "close"
    /\ IF PipeClosed(pipe[WalkerPipe])
       THEN /\ pc' = [pc EXCEPT !["walker"] = "send"]
            /\ UNCHANGED pipe
       ELSE /\ CanOffer(pipe[WalkerPipe])
            /\ pipe' = [pipe EXCEPT ![WalkerPipe] = Offer(@, "walker", ArchiveEnd)]
            /\ pc' = [pc EXCEPT !["walker"] = "close_wait"]
    /\ UNCHANGED <<rt, lockV, key, ret, opRes, upV, dnV>>

\* the remote put reads its body (line 186): data of a write in progress,
\* or end-of-stream, with which the put succeeds
Put_Read ==
    /\ pc["up"] = "put"
    /\ CanRead(pipe["up"])
    /\ IF pipe["up"].buf # <<>>
       THEN /\ putGot' = putGot \o ReadData(pipe["up"])
            /\ pipe' = [pipe EXCEPT !["up"] = AfterRead(@)]
            /\ UNCHANGED <<pc, opRes>>
       ELSE /\ opRes' = [opRes EXCEPT !["up"] = "nil"]
            /\ pc' = [pc EXCEPT !["up"] = "after_put"]
            /\ UNCHANGED <<pipe, putGot>>
    /\ UNCHANGED <<rt, lockV, key, ret, wq, werr, enc, dnV>>

\* lines 188-191: a put error is returned at once; otherwise in.Close()
\* and the wait for the walker's signal
U_AfterPut ==
    /\ pc["up"] = "after_put"
    /\ IF opRes["up"] # "nil"
       THEN /\ ret' = [ret EXCEPT !["up"] = opRes["up"]]
            /\ pc' = [pc EXCEPT !["up"] = "dcancel"]
            /\ UNCHANGED pipe
       ELSE /\ pipe' = [pipe EXCEPT !["up"] = CloseRead(@)]
            /\ pc' = [pc EXCEPT !["up"] = "recv"]
            /\ UNCHANGED ret
    /\ UNCHANGED <<rt, lockV, key, opRes, upV, dnV>>

\* the deferred enc.Close() (line 128): the encoder writes what it holds
\* and the end of its frame into the pipe; nothing was written, nothing to do
U_EncClose ==
    /\ pc["up"] = "encclose"
    /\ IF (enc.buf = <<>> /\ ~enc.open) \/ PipeClosed(pipe["up"])
       THEN /\ pc' = [pc EXCEPT !["up"] = "done"]
            /\ UNCHANGED <<pipe, enc>>
       ELSE /\ CanOffer(pipe["up"])
            /\ pipe' = [pipe EXCEPT !["up"] =
                          Offer(@, "up", Append(enc.buf, Tok("zfin", NoEntry)))]
            /\ enc' = [enc EXCEPT !.buf = <<>>, !.open = TRUE]
            /\ pc' = [pc EXCEPT !["up"] = "encclose_wait"]
    /\ UNCHANGED <<rt, lockV, key, ret, opRes, wq, werr, putGot, dnV>>

----------------------------------------------------------------------------
(* DownloadCompressedDirectory                                             *)

\* the pipe the archive reader reads from
ExtractorPipe == IF CodecOf(key["down"]) = "xz" THEN "dn" ELSE "dnTar"

\* what the remote object is made of, part by part: entries, corrupt data,
\* the end-of-archive mark; it has at most MaxObjLen parts
MaxObjLen == 2
DirEntry == Entry(<<"/", "x", "/", "a">>, TRUE, Perm700)
FileEntry == Entry(<<"/", "x", "/", "a", "/", "b">>, FALSE, Perm644)
ObjTokens ==
    {Tok("entry", DirEntry), Tok("entry", FileEntry),
     Tok("bad", NoEntry), Tok("end", NoEntry)}

\* lines 220-252: the pipe and the codec switch.  For .xz the reader is
\* opened and the call goes on to start the extractor (line 256); for
\* .zstd the call itself runs io.Copy(outZstd, d) (line 243)
D_Start(k) ==
    /\ pc["down"] = "idle"
    /\ key' = [key EXCEPT !["down"] = k]
    /\ \E ctorErr \in {"nil", "open_err"} :
         IF CodecOf(k) = "unknown"
         THEN /\ ret' = [ret EXCEPT !["down"] = "unknown_ext"]
              /\ pc' = [pc EXCEPT !["down"] = "done"]
              /\ UNCHANGED pipe
         ELSE IF ctorErr # "nil"
         THEN /\ ret' = [ret EXCEPT !["down"] = ctorErr]
              /\ pc' = [pc EXCEPT !["down"] = "done"]
              /\ UNCHANGED pipe
         ELSE /\ pipe' = [pipe EXCEPT !["dn"] = NewPipe, !["dnTar"] = NewPipe]
              /\ pc' = IF CodecOf(k) = "xz"
                       THEN [pc EXCEPT !["down"] = "lock", !["extractor"] = "read"]
                       ELSE [pc EXCEPT !["down"] = "copy"]
              /\ UNCHANGED ret
    /\ UNCHANGED <<rt, lockV, opRes, upV, objPos, localFs, curFile, eErrLoop, eErr>>

\* the remote get writes the next part of the object through
\* fakeWriterAt.WriteAt into the pipe (lines 287, 355-358), and returns nil
\* after the last one
Get_Step ==
    /\ pc["down"] = "get"
    /\ \E last \in BOOLEAN, tok \in ObjTokens :
       IF last \/ objPos > MaxObjLen
       THEN /\ opRes' = [opRes EXCEPT !["down"] = "nil"]
            /\ pc' = [pc EXCEPT !["down"] = "after_get"]
            /\ UNCHANGED pipe
       ELSE IF PipeClosed(pipe["dn"])
       THEN /\ opRes' = [opRes EXCEPT !["down"] = "closed_pipe"]
            /\ pc' = [pc EXCEPT !["down"] = "after_get"]
            /\ UNCHANGED pipe
       ELSE /\ CanOffer(pipe["dn"])
            /\ pipe' = [pipe EXCEPT !["dn"] = Offer(@, "down", <<tok>>)]
            /\ pc' = [pc EXCEPT !["down"] = "get_wait"]
            /\ UNCHANGED opRes
    /\ UNCHANGED <<rt, lockV, key, ret, upV, dnV>>

\* lines 291-294: out.Close(), then a get error is returned at once;
\* otherwise the wait for the extractor's signal
D_AfterGet ==
    /\ pc["down"] = "after_get"
    /\ pipe' = [pipe EXCEPT !["dn"] = CloseWrite(@)]
    /\ IF opRes["down"] # "nil"
       THEN /\ ret' = [ret EXCEPT !["down"] = opRes["down"]]
            /\ pc' = [pc EXCEPT !["down"] = "dcancel"]
       ELSE /\ pc' = [pc EXCEPT !["down"] = "recv"]
            /\ UNCHANGED ret
    /\ UNCHANGED <<rt, lockV, key, opRes, upV, dnV>>

\* f, err := compression.Read() (line 259): the next entry, io.EOF at the
\* end-of-archive mark, an error on corrupt data or a stream that ends
\* early.  This err is the loop's own; the one of line 257 is not assigned
E_Read ==
    /\ pc["extractor"] = "read"
    /\ CanRead(pipe[ExtractorPipe])
    /\ IF pipe[ExtractorPipe].buf = <<>>
       THEN /\ eErrLoop' = "unexpected_eof"
            /\ pc' = [pc EXCEPT !["extractor"] = "close"]
            /\ UNCHANGED <<pipe, curFile>>
       ELSE LET tok == Head(ReadData(pipe[ExtractorPipe])) IN
            /\ pipe' = [pipe EXCEPT ![ExtractorPipe] = AfterRead(@)]
            /\ IF tok.kind = "entry"
               THEN /\ curFile' = tok.f
                    /\ pc' = [pc EXCEPT !["extractor"] = "uncompress"]
                    /\ UNCHANGED eErrLoop
               ELSE /\ eErrLoop' = IF tok.kind = "end" THEN "EOF" ELSE "read_err"
                    /\ pc' = [pc EXCEPT !["extractor"] = "close"]
                    /\ UNCHANGED curFile
    /\ UNCHANGED <<rt, lockV, key, ret, opRes, upV, objPos, localFs, eErr>>

\* an extractor that would go on to the next entry after a failed
\* uncompressFile
E_UncompressOn ==
    /\ pc["extractor"] = "uncompress"
    /\ LET r == uncompressFile(localFs, TargetRoot, curFile) IN
       /\ localFs' = r.fs
       /\ eErrLoop' = r.err
       /\ pc' = [pc EXCEPT !["extractor"] = "read"]
    /\ UNCHANGED <<rt, lockV, pipe, key, ret, opRes, upV, objPos, curFile, eErr>>

\* err = uncompressFile(localRootDirectory, f) (lines 264-267), assigned to
\* the loop's err
E_Uncompress ==
    /\ pc["extractor"] = "uncompress"
    /\ LET r == uncompressFile(localFs, TargetRoot, curFile) IN
       /\ localFs' = r.fs
       /\ eErrLoop' = r.err
       /\ pc' = [pc EXCEPT !["extractor"] = IF r.err = "nil" THEN "read" ELSE "close"]
    /\ UNCHANGED <<rt, lockV, pipe, key, ret, opRes, upV, objPos, curFile, eErr>>

\* the err of line 257 after io.EOF has been mapped to nil (lines 271-273)
EofToNil(err) == IF err = "EOF" THEN "nil" ELSE err

\* after the loop (lines 270-273): in.Close(), and io.EOF in the err of
\* line 257 becomes nil
E_Close ==
    /\ pc["extractor"] = "close"
    /\ pipe' = [pipe EXCEPT !["dn"] = CloseRead(@)]
    /\ eErr' = EofToNil(eErr)
    /\ pc' = [pc EXCEPT !["extractor"] = "send"]
    /\ UNCHANGED <<rt, lockV, key, ret, opRes, upV, objPos, localFs, curFile, eErrLoop>>

----------------------------------------------------------------------------
(* What upload and download share                                          *)

StageOf(t) == IF t = "up" THEN "walker" ELSE "extractor"

\* the error a stage sends: the walker the result of filepath.Walk (line
\* 171), the extractor the err of line 257 (line 275)
Signal(t) == IF t = "up" THEN werr ELSE eErr

\* errorChannel <- err meets err = <-errorChannel (lines 171/193, 275/296):
\* the channel is unbuffered, both sides move together; the call returns
\* the stage's error
Rendezvous(t) ==
    /\ pc[t] = "recv"
    /\ pc[StageOf(t)] = "send"
    /\ ret' = [ret EXCEPT ![t] = Signal(t)]
    /\ pc' = [pc EXCEPT ![t] = "dcancel", ![StageOf(t)] = "done"]
    /\ UNCHANGED <<rt, lockV, pipe, key, opRes, upV, dnV>>

\* the remote operation gives up: it drops a write it had in progress
GiveUp(t, why) ==
    /\ opRes' = [opRes EXCEPT ![t] = why]
    /\ pc' = [pc EXCEPT ![t] = IF t = "up" THEN "after_put" ELSE "after_get"]
    /\ pipe' = IF pc[t] = "get_wait"
               THEN [pipe EXCEPT !["dn"] = AfterWrite(@)] ELSE pipe
    /\ UNCHANGED <<rt, lockV, key, ret, upV, dnV>>

\* the remote put/get fails (network, store)
RemoteFail(t) == InRemoteOp(t) /\ GiveUp(t, "remote_err")

\* the remote put/get sees its context cancelled
RemoteCancelled(t) == InRemoteOp(t) /\ ctx[t] = "cancelled" /\ GiveUp(t, "canceled")

\* the two io.Copy loops: the upload's copy stage (line 131, inZstd ->
\* enc) and the download's copy on the calling thread (line 243, d ->
\* outZstd)
Copiers == {"copier", "down"}
CopySrc(c) == IF c = "copier" THEN "upTar" ELSE "dn"
CopyReading(c) == pc[c] = (IF c = "copier" THEN "read" ELSE "copy")

\* io.Copy has returned.  The upload's stage ends there; the download goes
\* on to compression.Open(inTar) and the extractor stage (lines 245-256)
CopyReturns(c) ==
    IF c = "copier"
    THEN /\ pc' = [pc EXCEPT !["copier"] = "done"]
         /\ UNCHANGED ret
    ELSE \E ctorErr \in {"nil", "open_err"} :
           IF ctorErr # "nil"
           THEN /\ ret' = [ret EXCEPT !["down"] = ctorErr]
                /\ pc' = [pc EXCEPT !["down"] = "done"]
           ELSE /\ pc' = [pc EXCEPT !["down"] = "lock", !["extractor"] = "read"]
                /\ UNCHANGED ret

\* one read of io.Copy.  The encoder takes the data into its buffer and
\* either returns or has to write its buffer out; the decoder's output
\* goes straight into outZstd
CopyRead(c) ==
    /\ CopyReading(c)
    /\ CanRead(pipe[CopySrc(c)])
    /\ IF pipe[CopySrc(c)].buf = <<>>
       THEN /\ CopyReturns(c)
            /\ UNCHANGED <<pipe, enc>>
       ELSE IF c = "copier"
       THEN /\ pipe' = [pipe EXCEPT !["upTar"] = AfterRead(@)]
            /\ enc' = [enc EXCEPT !.buf = @ \o ReadData(pipe["upTar"])]
            /\ \E next \in {"read", "flush"} : pc' = [pc EXCEPT !["copier"] = next]
            /\ UNCHANGED ret
       ELSE /\ CanOffer(pipe["dnTar"])
            /\ pipe' = [pipe EXCEPT !["dn"] = AfterRead(@),
                                    !["dnTar"] = Offer(@, "down", ReadData(pipe["dn"]))]
            /\ pc' = [pc EXCEPT !["down"] = "copy_wait"]
            /\ UNCHANGED <<ret, enc>>
    /\ UNCHANGED <<rt, lockV, key, opRes, wq, werr, putGot, dnV>>

\* enc.Write writes the encoder's buffer into the upload pipe
CopyFlush ==
    /\ pc["copier"] = "flush"
    /\ IF PipeClosed(pipe["up"])
       THEN /\ pc' = [pc EXCEPT !["copier"] = "done"]
            /\ UNCHANGED <<pipe, enc>>
       ELSE /\ CanOffer(pipe["up"])
            /\ pipe' = [pipe EXCEPT !["up"] = Offer(@, "copier", enc.buf)]
            /\ enc' = [enc EXCEPT !.buf = <<>>, !.open = TRUE]
            /\ pc' = [pc EXCEPT !["copier"] = "write_wait"]
    /\ UNCHANGED <<rt, lockV, key, ret, opRes, wq, werr, putGot, dnV>>

\* io.Copy(enc, inZstd) ends on an error of enc.Write (lines 130-132): the
\* goroutine has nothing after the copy, the error is dropped and no pipe
\* end is closed
CopyFail ==
    /\ pc["copier"] = "flush"
    /\ pc' = [pc EXCEPT !["copier"] = "done"]
    /\ UNCHANGED <<rt, lockV, pipe, key, ret, opRes, upV, dnV>>

Writers == {"walker", "copier", "up", "down"}

\* PipeWriter.Write returns to the thread blocked in it: with nil once its
\* data has been read, with an error once an end is closed
WriteDone(th) ==
    \E p \in PipeNames :
      /\ WriteEnded(pipe[p], th)
      /\ pipe' = [pipe EXCEPT ![p] = AfterWrite(@)]
      /\ LET err == WriteErr(pipe[p]) IN
         \/ /\ th = "walker" /\ pc[th] = "write_wait"
            /\ werr' = IF err = "nil" THEN werr ELSE err
            /\ pc' = [pc EXCEPT ![th] = IF err = "nil" THEN "walk" ELSE "close"]
            /\ UNCHANGED <<ret, opRes, objPos>>
         \/ /\ th = "walker" /\ pc[th] = "close_wait"
            /\ pc' = [pc EXCEPT ![th] = "send"]
            /\ UNCHANGED <<ret, opRes, objPos, werr>>
         \/ /\ th = "copier" /\ pc[th] = "write_wait"
            /\ pc' = [pc EXCEPT ![th] = IF err = "nil" THEN "read" ELSE "done"]
            /\ UNCHANGED <<ret, opRes, objPos, werr>>
         \/ /\ th = "up" /\ pc[th] = "encclose_wait"
            /\ pc' = [pc EXCEPT ![th] = "done"]
            /\ UNCHANGED <<ret, opRes, objPos, werr>>
         \/ /\ th = "down" /\ pc[th] = "get_wait"
            /\ IF err = "nil"
               THEN /\ objPos' = objPos + 1
                    /\ pc' = [pc EXCEPT ![th] = "get"]
                    /\ UNCHANGED opRes
               ELSE /\ opRes' = [opRes EXCEPT ![th] = err]
                    /\ pc' = [pc EXCEPT ![th] = "after_get"]
                    /\ UNCHANGED objPos
            /\ UNCHANGED <<ret, werr>>
         \/ /\ th = "down" /\ pc[th] = "copy_wait"
            /\ IF err = "nil"
               THEN pc' = [pc EXCEPT ![th] = "copy"] /\ UNCHANGED ret
               ELSE CopyReturns(th)
            /\ UNCHANGED <<opRes, objPos, werr>>
      /\ UNCHANGED <<rt, lockV, key, wq, enc, putGot, localFs, curFile,
                     eErrLoop, eErr>>

----------------------------------------------------------------------------
(* Specifications                                                          *)

InFlight(t) == pc[t] \notin {"idle", "done"}

\* a step of the code, once called
Step ==
    \/ \E th \in Transfers \cup {"canceller"} : CancelBody(th)
    \/ \E t \in Transfers : CancelLock(t)
    \/ \E t \in Transfers : StartLock(t)
    \/ \E t \in Transfers : SetCancel(t)
    \/ W_Visit
    \/ W_Close
    \/ Put_Read
    \/ U_AfterPut
    \/ U_EncClose
    \/ Get_Step
    \/ D_AfterGet
    \/ E_Read
    \/ E_Uncompress
    \/ E_Close
    \/ \E t \in Transfers : Rendezvous(t)
    \/ \E t \in Transfers : RemoteCancelled(t)
    \/ \E c \in Copiers : CopyRead(c)
    \/ CopyFlush
    \/ \E th \in Writers : WriteDone(th)

\* what the callers and the remote store decide
Env ==
    \/ CancelLock("canceller")
    \/ \E t \in Transfers : RemoteFail(t)

NoneInFlight == \A t \in Transfers : ~InFlight(t)

\* transfers are called one at a time: the next one after the last has
\* returned; Cancel is called at any time
Next ==
    \/ Step
    \/ Env
    \/ \E k \in UpKeys : NoneInFlight /\ U_Start(k)
    \/ \E k \in DownKeys : NoneInFlight /\ D_Start(k)

\* upload and download may be called while the other is in flight; no
\* outside Cancel
ConcNext ==
    \/ Step
    \/ \E t \in Transfers : RemoteFail(t)
    \/ \E k \in UpKeys : U_Start(k)
    \/ \E k \in DownKeys : D_Start(k)

\* the steps of one thread, once it has been called
ThreadStep(th) ==
    CASE th = "up" ->
           \/ CancelLock("up") \/ CancelBody("up") \/ StartLock("up")
           \/ SetCancel("up") \/ Put_Read \/ U_AfterPut \/ U_EncClose
           \/ WriteDone("up") \/ RemoteCancelled("up") \/ Rendezvous("up")
      [] th = "down" ->
           \/ CancelLock("down") \/ CancelBody("down") \/ StartLock("down")
           \/ SetCancel("down") \/ Get_Step \/ D_AfterGet \/ CopyRead("down")
           \/ WriteDone("down") \/ RemoteCancelled("down") \/ Rendezvous("down")
      [] th = "walker" -> W_Visit \/ W_Close \/ WriteDone("walker")
      [] th = "copier" -> CopyRead("copier") \/ CopyFlush \/ WriteDone("copier")
      [] th = "extractor" -> E_Read \/ E_Uncompress \/ E_Close
      [] OTHER -> CancelBody("canceller")

RtOff ==
    [phase |-> "off", source |-> "none", tree |-> <<>>, root |-> <<>>,
     queue |-> <<>>, entries |-> <<>>, werr |-> "nil",
     fs |-> EmptyTarget, pos |-> 1, eerr |-> "nil"]

RtInit ==
    /\ SessionInit
    /\ \/ \E tree \in Trees, root \in RootStrings :
             rt = [RtOff EXCEPT !.phase = "walk", !.source = "walk",
                                !.tree = tree, !.root = root,
                                !.queue = PreOrder(tree, <<>>)]
       \/ \E ar \in Archives :
             rt = [RtOff EXCEPT !.phase = "extract", !.source = "archive",
                                !.entries = ar]

\* filepath.Walk calls the callback on the next node in pre-order; the
\* first error ends the walk, an entry is written otherwise
RT_Visit ==
    /\ rt.phase = "walk"
    /\ IF rt.queue = <<>>
       THEN rt' = [rt EXCEPT !.phase = "extract"]
       ELSE LET n == Head(rt.queue)
                r == walkFn(WalkPath(rt.root, n), rt.tree[n], "nil", "nil", rt.root)
            IN IF r.write
               THEN rt' = [rt EXCEPT !.queue = Tail(rt.queue),
                                     !.entries = Append(rt.entries, r.entry)]
               ELSE rt' = [rt EXCEPT !.werr = r.err, !.phase = "extract"]

\* the extractor loop body: read the next entry (end-of-archive ends the
\* loop), then uncompressFile; the first error ends the loop
RT_Extract ==
    /\ rt.phase = "extract"
    /\ IF rt.pos > Len(rt.entries)
       THEN rt' = [rt EXCEPT !.phase = "done"]
       ELSE LET r == uncompressFile(rt.fs, TargetRoot, rt.entries[rt.pos]) IN
            IF r.err = "nil"
            THEN rt' = [rt EXCEPT !.fs = r.fs, !.pos = rt.pos + 1]
            ELSE rt' = [rt EXCEPT !.eerr = r.err, !.phase = "done"]

RtNext == (RT_Visit \/ RT_Extract) /\ UNCHANGED sessionVars

RtSpec == RtInit /\ [][RtNext]_vars

\* the root strings the callback is tried on: absolute and relative, with
\* and without a trailing separator, not cleaned, and the filesystem root
NameRoots ==
    RootStrings \cup {<<"/", "r", "/", "/">>, <<"/", "/", "r">>, <<"/">>}

\* the callback on its own: one node at or below a root
NameInit ==
    /\ SessionInit
    /\ \E root \in NameRoots, n \in NodeUniverse \cup {<<>>},
          info \in DirKinds \cup FileKinds :
          rt = [RtOff EXCEPT !.phase = "name", !.source = "node",
                             !.root = root, !.tree = [x \in {n} |-> info],
                             !.queue = <<n>>]

\* filepath.Walk hands the node's path to the callback (lines 140-167),
\* which writes an entry or fails
RT_Name ==
    /\ rt.phase = "name"
    /\ LET n == Head(rt.queue)
           r == walkFn(WalkPath(rt.root, n), rt.tree[n], "nil", "nil", rt.root)
       IN IF r.write
          THEN rt' = [rt EXCEPT !.entries = <<r.entry>>, !.phase = "done"]
          ELSE rt' = [rt EXCEPT !.werr = r.err, !.phase = "done"]
    /\ UNCHANGED sessionVars

NameSpec == NameInit /\ [][RT_Name]_vars

Init == SessionInit /\ rt = RtOff

Spec == Init /\ [][Next]_vars

ConcSpec == Init /\ [][ConcNext]_vars

\* an upload and a download with the xz tag run at the same time while
\* Cancel is called from outside at any time; the remote store does not fail
LockNext ==
    \/ \E th \in Transfers \cup {"canceller"} : CancelBody(th)
    \/ \E th \in Transfers \cup {"canceller"} : CancelLock(th)
    \/ \E t \in Transfers : StartLock(t)
    \/ \E t \in Transfers : SetCancel(t)
    \/ U_Start(<<"b", ".", "x", "z">>)
    \/ D_Start(<<"b", ".", "X", "Z">>)
    \/ W_Visit
    \/ W_Close
    \/ Put_Read
    \/ U_AfterPut
    \/ Get_Step
    \/ D_AfterGet
    \/ E_Read
    \/ E_Uncompress
    \/ E_Close
    \/ \E t \in Transfers : Rendezvous(t)
    \/ \E t \in Transfers : RemoteCancelled(t)
    \/ \E th \in Writers : WriteDone(th)

LockSpec == Init /\ [][LockNext]_vars

\* one upload with the zstd tag; the encoder's Write and the remote put
\* may fail
ZstdNext ==
    \/ U_Start(<<"b", ".", "Z", "s", "t", "D">>)
    \/ StartLock("up")
    \/ SetCancel("up")
    \/ CancelLock("up")
    \/ CancelBody("up")
    \/ W_Visit
    \/ W_Close
    \/ Put_Read
    \/ U_AfterPut
    \/ U_EncClose
    \/ CopyRead("copier")
    \/ CopyFlush
    \/ CopyFail
    \/ \E th \in Writers : WriteDone(th)
    \/ RemoteFail("up")

ZstdSpec == Init /\ [][ZstdNext]_vars

\* one download with the xz tag; the remote get may fail
DownNext ==
    \/ D_Start(<<"b", ".", "X", "Z">>)
    \/ StartLock("down")
    \/ SetCancel("down")
    \/ CancelLock("down")
    \/ CancelBody("down")
    \/ Get_Step
    \/ D_AfterGet
    \/ E_Read
    \/ E_Uncompress
    \/ E_Close
    \/ Rendezvous("down")
    \/ WriteDone("down")
    \/ RemoteFail("down")

DownSpec == Init /\ [][DownNext]_vars

----------------------------------------------------------------------------
(* The claims                                                              *)

Returned(t) == pc[t] = "done"
\* the call got as far as its remote put/get
RemoteInvoked(t) == ctx[t] # "none"
WalkerEnded == pc["walker"] \in {"send", "done"}
ExtractorStopped == pc["extractor"] \in {"close", "send", "done"}
\* no stage thread of the transfer is left running or blocked
StagesEnded(t) ==
    IF t = "up" THEN pc["walker"] \in {"none", "done"} /\ pc["copier"] \in {"none", "done"}
    ELSE pc["extractor"] \in {"none", "done"}

\* the walker can take a step: it is walking (the callback runs on the
\* next node or the walk ends), or the write it waits for can go on
WalkerRuns ==
    pc["walker"] = "walk" \/ ENABLED (W_Close \/ WriteDone("walker"))

\* the extractor can take a step: it is between two reads, or its read has
\* something to return
ExtractorRuns ==
    pc["extractor"] \in {"uncompress", "close"} \/ ENABLED E_Read

\* some thread of the transfer can take a step
TransferRuns(t) ==
    IF t = "up"
    THEN WalkerRuns \/ ENABLED (ThreadStep("up") \/ ThreadStep("copier"))
    ELSE ExtractorRuns \/ ENABLED ThreadStep("down")

\* C2: once the walker stage has completed, an upload in flight is not
\* stuck: with the session lock free, the put (which reads whatever the
\* pipe offers, and end-of-stream once the writer side is closed) or another
\* thread of the upload can take a step towards the call's return
C2_WalkerEndReleasesUpload ==
    (WalkerEnded /\ InFlight("up") /\ m = "free") => TransferRuns("up")

\* C3: a download with the zstd tag that has come to its copy (line 243)
\* is not stuck there before the remote get: the copy has data or
\* end-of-stream to read
C3_ZstdDownloadReachesGet ==
    (pc["down"] = "copy" /\ ~RemoteInvoked("down")) => ENABLED CopyRead("down")

\* C4: a download whose extractor stopped on an error other than
\* end-of-archive returns a non-nil error
C4_ExtractorErrorReturned ==
    (Returned("down") /\ ExtractorStopped /\ eErrLoop \notin {"nil", "EOF"})
        => ret["down"] # "nil"

\* C5: a transfer whose remote operation an outside Cancel cancelled comes
\* to rest (the lock free, none of its threads able to step) only with the
\* call returned with a non-nil error and its stages ended
C5_CancelEndsTransfer ==
    \A t \in Transfers :
        (t \in hit /\ m = "free" /\ ~TransferRuns(t))
            => (Returned(t) /\ ret[t] # "nil" /\ StagesEnded(t))

\* the step in which transfer t is called
Called(t) == pc[t] = "idle" /\ pc'[t] # "idle"

\* a call with key k has left no trace but its error
Untouched(t) ==
    /\ ctx[t] = "none"
    /\ StagesEnded(t)
    /\ IF t = "up"
       THEN pc["walker"] = "none" /\ pc["copier"] = "none" /\ putGot = <<>>
       ELSE pc["extractor"] = "none" /\ localFs = EmptyTarget /\ objPos = 1

\* C6: a call returns the unknown-extension error exactly for the keys
\* whose lower-cased extension is neither .xz nor .zstd; such a call returns
\* in its first step, starts no stage, invokes no remote operation, creates
\* nothing locally and leaves the cancellation slot, the contexts and the
\* pipes as they were
C6_UnknownExtensionFailsFast ==
    /\ [](\A t \in Transfers :
            pc[t] # "idle" =>
              /\ (Returned(t) /\ ret[t] = "unknown_ext") <=> key[t] \in KeysUnknown
              /\ key[t] \in KeysUnknown => Untouched(t))
    /\ [][\A t \in Transfers :
            (Called(t) /\ key'[t] \in KeysUnknown) =>
               /\ pc'[t] = "done"
               /\ ret'[t] = "unknown_ext"
               /\ UNCHANGED <<cancel, m, ctx, pipe, localFs, putGot>>]_vars

\* an upload with an unknown key has returned while a download, called with
\* an upper-case tag, is in its remote get and holds the slot
C6_Witness ==
    /\ Returned("up") /\ key["up"] \in KeysUnknown /\ ret["up"] = "unknown_ext"
    /\ key["down"] = <<"b", ".", "X", "Z">> /\ InRemoteOp("down")
    /\ cancel = "down"

\* C7: transfers called one at a time: whenever none is in flight the slot
\* holds the no-op, so that the body of Cancel, run in that state, cancels
\* no context and leaves the slot as it is
C7_IdleSlotIsNoop ==
    NoneInFlight =>
        /\ cancel = "noop"
        /\ CallSlot(cancel, ctx) = ctx
        /\ SlotAfterCancel(cancel) = cancel

\* both transfers have returned, one after a failed put and one after a
\* cancelled get, and an outside Cancel holds the lock
C7_Witness ==
    /\ Returned("up") /\ ret["up"] = "remote_err"
    /\ Returned("down") /\ ret["down"] = "canceled"
    /\ pc["canceller"] = "cancel_locked"
    /\ cancel = "noop"

\* C8: the deferred Cancel of one transfer does not cancel the live
\* context of the other transfer
C8_SeparateScopes ==
    [][\A t \in Transfers, u \in Transfers :
          (u # t /\ pc[u] = "cancel_locked" /\ pc'[u] # "cancel_locked")
              => ~(ctx[t] = "live" /\ ctx'[t] = "cancelled")]_vars

\* C9: once the upload has returned after its remote put, the pipe's read
\* end is closed and the walker's signal has been received
C9_UploadReleasesWalker ==
    (Returned("up") /\ RemoteInvoked("up"))
        => (pipe["up"].rclosed /\ pc["walker"] = "done")

\* C10: once the download has returned after its remote get, the pipe's
\* write end is closed and the extractor's signal has been received
C10_DownloadAwaitsExtractor ==
    (Returned("down") /\ RemoteInvoked("down"))
        => (pipe["dn"].wclosed /\ pc["extractor"] = "done")

\* where a node of the walked tree belongs under the target root
NodeTarget(n) == Join(<<TargetRoot>> \o [i \in 1..Len(n) |-> <<n[i]>>])

\* C1: once a tree has been walked and the produced entries extracted into
\* the empty target, both sides succeeded and the target holds exactly the
\* tree's nodes, each with its kind and its permission bits
C1_RoundTrip ==
    (rt.phase = "done" /\ rt.source = "walk") =>
        /\ rt.werr = "nil"
        /\ rt.eerr = "nil"
        /\ DOMAIN rt.fs = {NodeTarget(n) : n \in DOMAIN rt.tree}
        /\ \A n \in DOMAIN rt.tree \ {<<>>} :
              /\ rt.fs[NodeTarget(n)].dir = rt.tree[n].dir
              /\ rt.fs[NodeTarget(n)].perm = rt.tree[n].perm

\* the node the walk visits next strips to the empty path
StripsToEmpty ==
    /\ rt.phase = "walk"
    /\ rt.queue # <<>>
    /\ TrimPrefix(WalkPath(rt.root, Head(rt.queue)), rt.root) = <<>>

\* C11: visiting a node whose path is empty after the root prefix is
\* stripped ends the walk in that step with the "unexpected path" error: no
\* entry is written for the node, the node and those after it stay
\* unvisited, and the error stays the walk's result
C11_EmptyPathFailsWalk ==
    /\ [][StripsToEmpty =>
            /\ rt'.werr = "unexpected_path"
            /\ rt'.phase # "walk"
            /\ rt'.entries = rt.entries
            /\ rt'.queue = rt.queue]_vars
    /\ [][rt.phase # "walk" =>
            /\ rt'.werr = rt.werr
            /\ rt'.queue = rt.queue
            /\ rt'.phase # "walk"]_vars

\* a walk of a root with two nodes below it has ended on its root
C11_Witness ==
    /\ rt.source = "walk" /\ rt.phase = "done"
    /\ rt.werr = "unexpected_path"
    /\ Len(rt.queue) = 3 /\ Head(rt.queue) = <<>>
    /\ rt.entries = <<>>

\* the threads that call Cancel or store into the slot
LockUsers == Transfers \cup {"canceller"}

\* the step is the body of a Cancel call
CancelBodyStep ==
    \E th \in LockUsers : pc[th] = "cancel_locked" /\ pc'[th] # "cancel_locked"

\* C12: with Cancel calls and transfers interleaved in every way, (1) the
\* thread holding the lock is inside Cancel or between Lock and Unlock of a
\* transfer's store, and its next step waits for nothing, (2) a step that
\* changes the slot or cancels a context is a step of the lock's holder,
\* which releases the lock, and (3) after the body of a Cancel the slot is
\* the no-op, so that another Cancel body would change neither a context
\* nor the slot
C12_CancelSafeIdempotent ==
    /\ [](\A th \in Threads :
            m = th => /\ th \in LockUsers
                      /\ pc[th] \in {"set", "cancel_locked"}
                      /\ ENABLED (SetCancel(th) \/ CancelBody(th)))
    /\ [][(cancel' # cancel \/ ctx' # ctx) =>
            /\ m \in LockUsers
            /\ pc[m] \in {"set", "cancel_locked"}
            /\ pc'[m] # pc[m]
            /\ m' = "free"]_vars
    /\ [][CancelBodyStep =>
            /\ cancel' = "noop"
            /\ CallSlot(cancel', ctx') = ctx'
            /\ SlotAfterCancel(cancel') = cancel']_vars

\* after a first Cancel has cancelled the upload, a second outside Cancel
\* holds the lock while the upload's deferred Cancel and the download's
\* store wait for it
C12_Witness ==
    /\ m = "canceller" /\ pc["canceller"] = "cancel_locked"
    /\ pc["up"] = "dcancel" /\ ctx["up"] = "cancelled"
    /\ pc["down"] = "lock"
    /\ cancel = "noop"

\* C13: once the upload's copy stage has exited, the read end of the
\* internal pipe and the write end of the outer pipe are closed, and with
\* that a walker in a write and a put in a read are not left waiting
C13_CopyExitClosesPipes ==
    pc["copier"] = "done" =>
        /\ pipe["upTar"].rclosed
        /\ pipe["up"].wclosed
        /\ pc["walker"] \in {"write_wait", "close_wait"} => ENABLED WriteDone("walker")
        /\ pc["up"] = "put" => ENABLED Put_Read

\* the tokens that close the encoded stream: the archive's trailer and the
\* codec's final flush (xz footer, end of the zstd frame)
ClosingKinds == {"trailer", "xzfoot", "zfin"}

\* the remote put of the upload has returned
PutReturned == pc["up"] \notin {"idle", "lock", "set", "put"}

\* C14: the archive's trailer and the codec's final flush are handed to
\* the outer pipe while the remote put is still to read them, never once
\* the put has returned; what the put has read holds the archive's end
\* before any end of the codec's stream
C14_NoTruncation ==
    /\ \A i \in 1..Len(pipe["up"].buf) :
          (pipe["up"].buf[i].kind \in ClosingKinds /\ pipe["up"].writer = "up")
              => ~PutReturned
    /\ \A i \in 1..Len(putGot) :
          putGot[i].kind \in {"xzfoot", "zfin"}
              => \E j \in 1..(i - 1) : putGot[j].kind = "trailer"

\* C15: the name of every entry the callback writes is non-empty, begins
\* with '/' and has no second '/' after it, and holds no empty segment,
\* for every root string and every node
C15_EntryNameShape ==
    \A i \in 1..Len(rt.entries) :
        rt.source \in {"walk", "node"} =>
            LET name == rt.entries[i].name IN
            /\ Len(name) >= 2
            /\ name[1] = "/"
            /\ name[2] # "/"
            /\ name = <<"/">> \o JoinSegs(FieldsFunc(name))

\* the callback has named a node two levels below a root given with a
\* trailing separator
C15_Witness ==
    /\ rt.source = "node" /\ rt.phase = "done"
    /\ rt.root = <<"/", "r", "/">>
    /\ Len(rt.entries) = 1
    /\ rt.entries[1].name = <<"/", "a", "/", "b">>

\* the entry names without any segment
NoSegmentNames == {<<>>, <<"/">>}

\* where each entry name belongs under the target root /t, written out
ExpectedDest(name) ==
    CASE name = <<"/", "a">> -> <<"/", "t">>
      [] name = <<"/", "a", "/", "b">> -> <<"/", "t", "/", "b">>
      [] name = <<"a", "/", "b">> -> <<"/", "t", "/", "b">>
      [] name = <<"/", "/", "a", "/", "/", "b", "/">> -> <<"/", "t", "/", "b">>
      [] name = <<"r", "/", "a", "/", "b">> -> <<"/", "t", "/", "a", "/", "b">>
      [] OTHER -> <<>>

\* the extractor is about to run uncompressFile on the next entry
AtEntry == rt.phase = "extract" /\ rt.pos <= Len(rt.entries)

\* C16: uncompressFile on an entry whose name has no segment fails with
\* the path error and leaves the filesystem as it is; on any other entry it
\* creates nothing but the destination (the target root in place of the
\* first segment, the remaining non-empty segments below it), leaves every
\* other path as it is, and after a success the destination exists
C16_DestinationOfEntry ==
    [][AtEntry =>
         LET e == rt.entries[rt.pos] IN
         IF e.name \in NoSegmentNames
         THEN /\ rt'.eerr = "incorrect_path"
              /\ rt'.fs = rt.fs
              /\ rt'.phase = "done"
         ELSE /\ rt'.eerr # "incorrect_path"
              /\ DOMAIN rt'.fs \ DOMAIN rt.fs \subseteq {ExpectedDest(e.name)}
              /\ \A q \in DOMAIN rt.fs : q \in DOMAIN rt'.fs /\ rt'.fs[q] = rt.fs[q]
              /\ rt'.eerr = "nil" => ExpectedDest(e.name) \in DOMAIN rt'.fs]_vars

\* an archive whose entry name has doubled and trailing separators has
\* been extracted to /t/b
C16_Witness ==
    /\ rt.source = "archive" /\ rt.phase = "done" /\ rt.eerr = "nil"
    /\ Len(rt.entries) = 1
    /\ rt.entries[1].name = <<"/", "/", "a", "/", "/", "b", "/">>
    /\ <<"/", "t", "/", "b">> \in DOMAIN rt.fs

LoopFailed == eErrLoop \notin {"nil", "EOF"}

\* C18: once the extractor's loop has met an error, the extractor is past
\* its loop and stays there, reading no entry and changing no file; it
\* goes on to close its read end and comes to its send on the error channel
C18_FirstErrorAborts ==
    /\ [](LoopFailed => ExtractorStopped)
    /\ [][LoopFailed =>
            /\ localFs' = localFs
            /\ curFile' = curFile
            /\ eErrLoop' = eErrLoop
            /\ pc'["extractor"] \in {"close", "send", "done"}]_vars
    /\ [](pc["extractor"] = "close" => ENABLED E_Close)
    /\ []((LoopFailed /\ pc["extractor"] \in {"send", "done"}) => pipe["dn"].rclosed)

\* the extractor has created a directory, then met corrupt data, and stands
\* at its send with its read end closed
C18_Witness ==
    /\ eErrLoop = "read_err"
    /\ pc["extractor"] = "send"
    /\ <<"/", "t", "/", "a">> \in DOMAIN localFs
    /\ pipe["dn"].rclosed

====
